---- MODULE Spec2Model ----
(***************************************************************************)
(* bufsd: a byte-buffer Serializer (writer) and Deserializer (reader).     *)
(*                                                                         *)
(* Representation.  A byte is a number in 0..255.  A buffer is a sequence  *)
(* of bytes (std::vector<unsigned char>).  A value of an integer type T    *)
(* is the numeral of its sizeof(T) bytes, most significant byte first, as  *)
(* a hexadecimal literal is written: 0x1234 of type unsigned short is      *)
(* <<\h12, \h34>>.  (TLC's integers are 32 bits wide, a 64-bit value does  *)
(* not fit one.)  Sizes, indexes and cursors (size_t) are numbers; no      *)
(* size_t in the model comes near 2^31.                                    *)
(***************************************************************************)
EXTENDS Integers, Sequences, FiniteSets, TLC

VARIABLES
    ser,        \* the Serializer object: [buffer, deferred_sizes]
    des,        \* the Deserializer object: [buffer, cursor, buffer_size, remaining]
    ret,        \* outcome of the last call: what it returned or threw
    returned,   \* client programs: the vectors of the last two Serializer::get_buffer calls, newest last
    prog,       \* the client program being run, a sequence of calls; <<>> when any call may come
    pc          \* number of calls of prog already made

vars == <<ser, des, ret, returned, prog, pc>>

(***************************************************************************)
(* Bounds of the model.                                                    *)
(***************************************************************************)
\* longest Serializer buffer the free exploration grows
MaxLen == 8
\* longest vector handed to push_buffer / returned by serialize()
MaxSlice == 2
\* largest size given to the constructor Serializer(size, value)
MaxInitSize == 1
\* longest buffer handed to the Deserializer constructor in the free exploration
MaxInput == 4
\* longest client program made of the calls of CoreCalls
MaxCalls == 5
\* longest client program made of the calls of DocCalls
MaxDocCalls == 3
\* longest byte vector handed to make_buffer_string
MaxHexLen == 3
\* longest string of TextChars handed to hex_string_to_byte_vector
MaxText == 4
\* longest client program made of the calls of BigCalls
MaxBigCalls == 2

(***************************************************************************)
(* Bytes, values and outcomes.                                             *)
(***************************************************************************)
Byte == 0..255

\* byte values the explorations draw buffers and values from
SomeBytes == {\h00, \h9a, \hff}

\* all sequences over S of length 0..n
RECURSIVE SeqsUpTo(_, _)
SeqsUpTo(S, n) ==
    IF n = 0 THEN {<<>>}
    ELSE LET shorter == SeqsUpTo(S, n - 1)
         IN  shorter \cup {Append(s, b) : s \in {t \in shorter : Len(t) = n - 1}, b \in S}

\* all sequences over S of length exactly n
SeqsOfLen(S, n) == {s \in SeqsUpTo(S, n) : Len(s) = n}

\* a method returned normally with nothing to report (void)
Void == [kind |-> "void"]
\* a Serializer method returned *this
Self == [kind |-> "self"]
\* a method returned a byte vector
Bytes(b) == [kind |-> "bytes", bytes |-> b]
\* a method returned an integer value (a numeral of sizeof(T) bytes)
Value(v) == [kind |-> "value", value |-> v]
\* a method returned a size_t
Size(n) == [kind |-> "size", size |-> n]
\* a method returned a std::string
String(s) == [kind |-> "string", string |-> s]
\* a method threw std::runtime_error; what tells the two messages apart
Throw(what) == [kind |-> "throw", what |-> what]

\* nothing returned yet
NoRet == [kind |-> "none"]
\* no Deserializer constructed
NoDes == [buffer |-> <<>>, cursor |-> 0, buffer_size |-> 0, remaining |-> 0]
\* no Serializer in use
NoSer == [buffer |-> <<>>, deferred_sizes |-> <<>>]

(***************************************************************************)
(* Integer operations of the source, on numerals and on size_t.            *)
(***************************************************************************)
\* sizeof(T) of the type of value
SizeOf(value) == Len(value)

\* (value >> (i * 8)) & 0xff, for 0 <= i < sizeof(T)
ShiftMask(value, i) == value[Len(value) - i]

\* mutant of ShiftRight8: the shift is by i bits
ShiftRight8_bits(n, i) == n \div (2 ^ i)

\* n >> (i * 8) for a size_t n
RECURSIVE ShiftRight8(_, _)
ShiftRight8(n, i) == IF i = 0 THEN n ELSE ShiftRight8(n \div 256, i - 1)

\* (buffer_size >> (i * 8)) & 0xff for a size_t buffer_size
SizeShiftMask(n, i) == ShiftRight8(n, i) % 256

\* a | b on two bytes
RECURSIVE BitOr(_, _)
BitOr(a, b) ==
    IF a = 0 THEN b
    ELSE IF b = 0 THEN a
    ELSE (IF a % 2 = 1 \/ b % 2 = 1 THEN 1 ELSE 0) + 2 * BitOr(a \div 2, b \div 2)

\* unsigned long long value = 0
ZeroULL == <<0, 0, 0, 0, 0, 0, 0, 0>>

\* mutant of OrShiftLeft: the shift is done in 32 bits, what goes past them is lost
OrShiftLeft32(value, b, i) ==
    IF i >= 4 THEN value ELSE [value EXCEPT ![Len(value) - i] = BitOr(@, b)]

\* value |= (unsigned long long)b << 8 * i, for 0 <= i < 8
OrShiftLeft(value, b, i) == [value EXCEPT ![Len(value) - i] = BitOr(@, b)]

\* (unsigned char) / (unsigned short) / (unsigned int) of an unsigned long long:
\* the n low-order bytes
Cast(value, n) == SubSeq(value, Len(value) - n + 1, Len(value))

(***************************************************************************)
(* utils.cpp                                                               *)
(***************************************************************************)
\* A std::string is the sequence of its characters, a char is its code: '0' is 48,
\* 'A' is 65, 'a' is 97, ' ' is 32.
\* the digits std::hex writes: '0'..'9', 'a'..'f'
HexDigits == <<48, 49, 50, 51, 52, 53, 54, 55, 56, 57, 97, 98, 99, 100, 101, 102>>

\* mutant of make_buffer_string: no std::setfill('0') << std::setw(2), a byte below
\* 0x10 gives one digit
RECURSIVE make_buffer_string_no_fill(_)
make_buffer_string_no_fill(buffer) ==
    IF buffer = <<>> THEN <<>>
    ELSE (IF Head(buffer) < 16 THEN <<HexDigits[Head(buffer) + 1]>>
          ELSE <<HexDigits[(Head(buffer) \div 16) + 1], HexDigits[(Head(buffer) % 16) + 1]>>)
         \o make_buffer_string_no_fill(Tail(buffer))

\* for (val : buffer) ss << std::hex << std::setfill('0') << std::setw(2) << (int)val
RECURSIVE make_buffer_string(_)
make_buffer_string(buffer) ==
    IF buffer = <<>> THEN <<>>
    ELSE <<HexDigits[(Head(buffer) \div 16) + 1], HexDigits[(Head(buffer) % 16) + 1]>>
         \o make_buffer_string(Tail(buffer))

\* std::isspace in the "C" locale: ' ', '\t', '\n', '\v', '\f', '\r'
isspace(c) == c \in {32, 9, 10, 11, 12, 13}

\* mutant of isxdigit: the capital letters are not digits
isxdigit_lower_case(c) == c \in (48..57) \cup (97..102)

\* std::isxdigit: '0'..'9', 'A'..'F', 'a'..'f'
isxdigit(c) == c \in (48..57) \cup (65..70) \cup (97..102)

\* the first loop of hex_string_to_byte_vector over what is left of hex_string:
\* white space is skipped, a character that is no hex digit throws, a digit goes to clean
RECURSIVE clean_loop(_, _)
clean_loop(hex_string, clean) ==
    IF hex_string = <<>> THEN [threw |-> FALSE, clean |-> clean]
    ELSE LET c == Head(hex_string)
         IN  IF isspace(c) THEN clean_loop(Tail(hex_string), clean)
             ELSE IF ~isxdigit(c) THEN [threw |-> TRUE, clean |-> clean]
             ELSE clean_loop(Tail(hex_string), Append(clean, c))

\* the value std::stoi gives a hex digit
stoi_digit(c) ==
    IF c \in 48..57 THEN c - 48 ELSE IF c \in 65..70 THEN c - 65 + 10 ELSE c - 97 + 10

\* std::stoi(str, nullptr, 16) of a string of hex digits, after the digits in acc
RECURSIVE stoi_16(_, _)
stoi_16(str, acc) ==
    IF str = <<>> THEN acc ELSE stoi_16(Tail(str), 16 * acc + stoi_digit(Head(str)))

\* the second loop: for (i = 0; i < clean.size(); i += 2)
\*     bytes.push_back(static_cast<unsigned char>(std::stoi(clean.substr(i, 2), nullptr, 16)))
RECURSIVE bytes_loop(_, _)
bytes_loop(clean, i) ==
    IF ~(i < Len(clean)) THEN <<>>
    ELSE <<stoi_16(SubSeq(clean, i + 1, i + 2), 0) % 256>> \o bytes_loop(clean, i + 2)

\* what the call returns or throws (it has no object)
hex_string_to_byte_vector(hex_string) ==
    LET r == clean_loop(hex_string, <<>>)
    IN  IF r.threw THEN Throw("invalid_argument")
        ELSE IF Len(r.clean) % 2 # 0 THEN Throw("invalid_argument")
        ELSE Bytes(bytes_loop(r.clean, 0))

(***************************************************************************)
(* Serializer.  Every method is an operator from the object S before the   *)
(* call to [obj |-> the object after, ret |-> what the call returned or    *)
(* threw].                                                                 *)
(***************************************************************************)
\* Serializer()
NewSerializer == [buffer |-> <<>>, deferred_sizes |-> <<>>]

\* Serializer(size, value)
NewSerializerSized(size, value) ==
    [buffer |-> [k \in 1..size |-> value], deferred_sizes |-> <<>>]

\* mutant of check_size: a narrower type is let through
check_size_at_most(value, amount_of_bytes) == SizeOf(value) <= amount_of_bytes

\* TRUE when check_size returns, FALSE when it throws
check_size(value, amount_of_bytes) == SizeOf(value) = amount_of_bytes

\* for (i = 0; i < sizeof(T); i++) push_back((value >> (i * 8)) & 0xff)
push_little_endian(S, value) ==
    [obj |-> [S EXCEPT !.buffer = @ \o [k \in 1..SizeOf(value) |-> ShiftMask(value, k - 1)]],
     ret |-> Self]

\* mutant of push_big_endian: the loop runs from the least significant byte up
push_big_endian_low_first(S, value) ==
    [obj |-> [S EXCEPT !.buffer = @ \o [k \in 1..SizeOf(value) |-> ShiftMask(value, k - 1)]],
     ret |-> Self]

\* for (i = sizeof(T) - 1; i >= 0; i--) push_back((value >> (i * 8)) & 0xff)
push_big_endian(S, value) ==
    [obj |-> [S EXCEPT !.buffer =
                 @ \o [k \in 1..SizeOf(value) |-> ShiftMask(value, SizeOf(value) - k)]],
     ret |-> Self]

push_16_big_endian(S, value) ==
    IF ~check_size(value, 2) THEN [obj |-> S, ret |-> Throw("SizeMismatch")]
    ELSE push_big_endian(S, value)

push_32_big_endian(S, value) ==
    IF ~check_size(value, 4) THEN [obj |-> S, ret |-> Throw("SizeMismatch")]
    ELSE push_big_endian(S, value)

\* mutant of push_64_big_endian: the bytes go out least significant first
push_64_big_endian_as_little(S, value) ==
    IF ~check_size(value, 8) THEN [obj |-> S, ret |-> Throw("SizeMismatch")]
    ELSE push_little_endian(S, value)

push_64_big_endian(S, value) ==
    IF ~check_size(value, 8) THEN [obj |-> S, ret |-> Throw("SizeMismatch")]
    ELSE push_big_endian(S, value)

push_16_little_endian(S, value) ==
    IF ~check_size(value, 2) THEN [obj |-> S, ret |-> Throw("SizeMismatch")]
    ELSE push_little_endian(S, value)

\* mutant of push_32_little_endian: the bytes go out most significant first
push_32_little_endian_as_big(S, value) ==
    IF ~check_size(value, 4) THEN [obj |-> S, ret |-> Throw("SizeMismatch")]
    ELSE push_big_endian(S, value)

push_32_little_endian(S, value) ==
    IF ~check_size(value, 4) THEN [obj |-> S, ret |-> Throw("SizeMismatch")]
    ELSE push_little_endian(S, value)

push_64_little_endian(S, value) ==
    IF ~check_size(value, 8) THEN [obj |-> S, ret |-> Throw("SizeMismatch")]
    ELSE push_little_endian(S, value)

push_byte(S, value) ==
    IF ~check_size(value, 1) THEN [obj |-> S, ret |-> Throw("SizeMismatch")]
    ELSE push_little_endian(S, value)

\* mutant of push_buffer: the bytes are inserted at buffer.begin()
push_buffer_at_begin(S, values) ==
    [obj |-> [S EXCEPT !.buffer = values \o @], ret |-> Self]

\* buffer.insert(buffer.end(), values.begin(), values.end())
push_buffer(S, values) ==
    [obj |-> [S EXCEPT !.buffer = @ \o values], ret |-> Self]

\* object stands for the vector object.serialize() returns
push_object(S, object) == push_buffer(S, object)

\* mutant of Deferred_Buffer_Size: the record points behind its placeholder
Deferred_Buffer_Size_behind(index, number_of_bytes, endianness) ==
    [index |-> index + number_of_bytes, number_of_bytes |-> number_of_bytes,
     endianness |-> endianness]

\* a Deferred_Buffer_Size record; index counts from 0 as in the source
Deferred_Buffer_Size(index, number_of_bytes, endianness) ==
    [index |-> index, number_of_bytes |-> number_of_bytes, endianness |-> endianness]

\* mutant of insert_one_size: the size bytes are inserted at index, not written over
\* the placeholder
insert_one_size_inserting(buffer, deferred, buffer_size) ==
    SubSeq(buffer, 1, deferred.index)
    \o [k \in 1..deferred.number_of_bytes |->
            SizeShiftMask(buffer_size, deferred.number_of_bytes - k)]
    \o SubSeq(buffer, deferred.index + 1, Len(buffer))

\* mutant of insert_one_size: the bytes are written from the start of the buffer
insert_one_size_at_begin(buffer, deferred, buffer_size) ==
    [k \in 1..Len(buffer) |->
        IF k <= deferred.number_of_bytes
        THEN SizeShiftMask(buffer_size, deferred.number_of_bytes - k)
        ELSE buffer[k]]

\* the inner loop of insert_buffer_sizes for one record:
\* for (i = number_of_bytes - 1; i >= 0; i--) buffer[index++] = (buffer_size >> (i * 8)) & 0xff
\* (the endianness field is not read)
insert_one_size(buffer, deferred, buffer_size) ==
    [k \in 1..Len(buffer) |->
        IF deferred.index < k /\ k <= deferred.index + deferred.number_of_bytes
        THEN SizeShiftMask(buffer_size, deferred.number_of_bytes - (k - deferred.index))
        ELSE buffer[k]]

\* mutant of insert_sizes_from: only the first record is filled
insert_sizes_first_only(buffer, deferred_sizes, n, buffer_size) ==
    IF n > Len(deferred_sizes) THEN buffer
    ELSE insert_one_size(buffer, deferred_sizes[n], buffer_size)

\* the outer loop of insert_buffer_sizes over the records from position n on
RECURSIVE insert_sizes_from(_, _, _, _)
insert_sizes_from(buffer, deferred_sizes, n, buffer_size) ==
    IF n > Len(deferred_sizes) THEN buffer
    ELSE insert_sizes_from(insert_one_size(buffer, deferred_sizes[n], buffer_size),
                           deferred_sizes, n + 1, buffer_size)

insert_buffer_sizes(S) ==
    [S EXCEPT !.buffer = insert_sizes_from(S.buffer, S.deferred_sizes, 1, Len(S.buffer))]

\* insert_buffer_sizes(); return buffer (a const reference: ret holds the bytes the
\* buffer has when the call returns, which is what a caller copying it keeps)
Serializer_get_buffer(S) ==
    LET T == insert_buffer_sizes(S)
    IN  [obj |-> T, ret |-> Bytes(T.buffer)]

Serializer_get_buffer_size(S) == [obj |-> S, ret |-> Size(Len(S.buffer))]

\* the printed text is not modelled; the call fills the deferred sizes
Serializer_print_buffer(S) == [obj |-> insert_buffer_sizes(S), ret |-> Void]

\* mutant of Serializer::get_buffer_string: the buffer is formatted as it is, the
\* deferred sizes are not filled in
get_buffer_string_unfilled(S) == [obj |-> S, ret |-> String(make_buffer_string(S.buffer))]

\* return make_buffer_string(this->get_buffer())
Serializer_get_buffer_string(S) ==
    LET r == Serializer_get_buffer(S)
    IN  [obj |-> r.obj, ret |-> String(make_buffer_string(r.ret.bytes))]

\* mutant of defer_buffer_size_32_big_endian: the record is made after the push,
\* its index is the end of the placeholder
defer_after_push(S) ==
    LET r == push_32_big_endian(S, <<0, 0, 0, 0>>)
    IN  [r EXCEPT !.obj.deferred_sizes =
            Append(@, Deferred_Buffer_Size(Len(r.obj.buffer), 4, "BIG"))]

\* mutant of defer_buffer_size_32_big_endian: the record starts on the last byte
\* already in the buffer
defer_one_early(S) ==
    push_32_big_endian(
        [S EXCEPT !.deferred_sizes =
            Append(@, Deferred_Buffer_Size(IF Len(S.buffer) = 0 THEN 0 ELSE Len(S.buffer) - 1,
                                           4, "BIG"))],
        <<0, 0, 0, 0>>)

\* mutant of defer_buffer_size_32_big_endian: the record is made, no placeholder is pushed
defer_without_placeholder(S) ==
    [obj |-> [S EXCEPT !.deferred_sizes = Append(@, Deferred_Buffer_Size(Len(S.buffer), 4, "BIG"))],
     ret |-> Self]

\* deferred_sizes.push_back({buffer.size(), 4, BIG}); return push_32_big_endian(0x00000000)
defer_buffer_size_32_big_endian(S) ==
    push_32_big_endian(
        [S EXCEPT !.deferred_sizes = Append(@, Deferred_Buffer_Size(Len(S.buffer), 4, "BIG"))],
        <<0, 0, 0, 0>>)

(***************************************************************************)
(* Deserializer.  Every method is an operator from the object D before     *)
(* the call to [obj |-> the object after, ret |-> what the call returned   *)
(* or threw].                                                              *)
(***************************************************************************)
\* Deserializer(buffer): cursor = 0 by its member initializer
NewDeserializer(buffer) ==
    [buffer |-> buffer, cursor |-> 0, buffer_size |-> Len(buffer), remaining |-> Len(buffer)]

\* mutant of assert_is_available: asking for all that remains throws too
assert_is_available_strict(D, amount_of_bytes) == ~(D.remaining <= amount_of_bytes)

\* TRUE when assert_is_available returns, FALSE when it throws
assert_is_available(D, amount_of_bytes) == ~(D.remaining < amount_of_bytes)

\* mutant of update_remaining: the byte under the cursor is not counted
update_remaining_short(D) ==
    IF D.cursor >= D.buffer_size \/ D.cursor < 0
    THEN [D EXCEPT !.remaining = 0]
    ELSE [D EXCEPT !.remaining = D.buffer_size - D.cursor - 1]

update_remaining(D) ==
    IF D.cursor >= D.buffer_size \/ D.cursor < 0
    THEN [D EXCEPT !.remaining = 0]
    ELSE [D EXCEPT !.remaining = D.buffer_size - D.cursor]

\* for (i = amount_of_bytes - 1; i >= 0; i--) value |= buffer[cursor++] << 8 * i
RECURSIVE big_endian_loop(_, _, _)
big_endian_loop(D, value, i) ==
    IF i < 0 THEN [obj |-> D, value |-> value]
    ELSE big_endian_loop([D EXCEPT !.cursor = @ + 1],
                         OrShiftLeft(value, D.buffer[D.cursor + 1], i), i - 1)

get_big_endian(D, amount_of_bytes) ==
    IF ~assert_is_available(D, amount_of_bytes)
    THEN [obj |-> D, ret |-> Throw("OutOfBounds")]
    ELSE LET r == big_endian_loop(D, ZeroULL, amount_of_bytes - 1)
         IN  [obj |-> update_remaining(r.obj), ret |-> Value(r.value)]

\* for (i = 0; i < amount_of_bytes; i++) value |= buffer[cursor++] << 8 * i
RECURSIVE little_endian_loop(_, _, _, _)
little_endian_loop(D, value, i, amount_of_bytes) ==
    IF ~(i < amount_of_bytes) THEN [obj |-> D, value |-> value]
    ELSE little_endian_loop([D EXCEPT !.cursor = @ + 1],
                            OrShiftLeft(value, D.buffer[D.cursor + 1], i),
                            i + 1, amount_of_bytes)

\* mutant of get_little_endian: the bytes are placed as get_big_endian places them
get_little_endian_as_big(D, amount_of_bytes) ==
    IF ~assert_is_available(D, amount_of_bytes)
    THEN [obj |-> D, ret |-> Throw("OutOfBounds")]
    ELSE LET r == big_endian_loop(D, ZeroULL, amount_of_bytes - 1)
         IN  [obj |-> update_remaining(r.obj), ret |-> Value(r.value)]

get_little_endian(D, amount_of_bytes) ==
    IF ~assert_is_available(D, amount_of_bytes)
    THEN [obj |-> D, ret |-> Throw("OutOfBounds")]
    ELSE LET r == little_endian_loop(D, ZeroULL, 0, amount_of_bytes)
         IN  [obj |-> update_remaining(r.obj), ret |-> Value(r.value)]

\* (T)r for the call outcome r of get_big_endian / get_little_endian, T of n bytes;
\* an exception passes through
CastReturn(r, n) ==
    IF r.ret.kind = "throw" THEN r
    ELSE [obj |-> r.obj, ret |-> Value(Cast(r.ret.value, n))]

get_byte(D) == CastReturn(get_big_endian(D, 1), 1)

\* mutant of get_16_big_endian: the two bytes are read least significant first
get_16_big_endian_as_little(D) == CastReturn(get_little_endian(D, 2), 2)

get_16_big_endian(D) == CastReturn(get_big_endian(D, 2), 2)

get_32_big_endian(D) == CastReturn(get_big_endian(D, 4), 4)

get_64_big_endian(D) == get_big_endian(D, 8)

get_16_little_endian(D) == CastReturn(get_little_endian(D, 2), 2)

get_32_little_endian(D) == CastReturn(get_little_endian(D, 4), 4)

get_64_little_endian(D) == get_little_endian(D, 8)

\* mutant of Deserializer::get_buffer: begin is taken after the cursor has moved
get_buffer_begin_after_move(D, size) ==
    IF ~assert_is_available(D, size)
    THEN [obj |-> D, ret |-> Throw("OutOfBounds")]
    ELSE [obj |-> update_remaining([D EXCEPT !.cursor = @ + size]),
          ret |-> Bytes([k \in 1..size |->
                            IF D.cursor + size + k <= Len(D.buffer)
                            THEN D.buffer[D.cursor + size + k] ELSE 0])]

Deserializer_get_buffer(D, size) ==
    IF ~assert_is_available(D, size)
    THEN [obj |-> D, ret |-> Throw("OutOfBounds")]
    ELSE [obj |-> update_remaining([D EXCEPT !.cursor = @ + size]),
          ret |-> Bytes(SubSeq(D.buffer, D.cursor + 1, D.cursor + size))]

get_cursor(D) == [obj |-> D, ret |-> Size(D.cursor)]

\* mutant of get_remaining: the call recomputes remaining from the start of the buffer
get_remaining_recounting(D) ==
    [obj |-> [D EXCEPT !.remaining = D.buffer_size], ret |-> Size(D.buffer_size)]

get_remaining(D) == [obj |-> D, ret |-> Size(D.remaining)]

Deserializer_get_buffer_size(D) == [obj |-> D, ret |-> Size(D.buffer_size)]

\* mutant of skip: the cursor moves before the check
skip_then_check(D, amount_of_bytes) ==
    LET moved == update_remaining([D EXCEPT !.cursor = @ + amount_of_bytes])
    IN  IF ~assert_is_available(D, amount_of_bytes)
        THEN [obj |-> moved, ret |-> Throw("OutOfBounds")]
        ELSE [obj |-> moved, ret |-> Void]

\* mutant of skip: a call that throws leaves the cursor at 0
skip_rewinding(D, amount_of_bytes) ==
    IF ~assert_is_available(D, amount_of_bytes)
    THEN [obj |-> update_remaining([D EXCEPT !.cursor = 0]), ret |-> Throw("OutOfBounds")]
    ELSE [obj |-> update_remaining([D EXCEPT !.cursor = @ + amount_of_bytes]), ret |-> Void]

skip(D, amount_of_bytes) ==
    IF ~assert_is_available(D, amount_of_bytes)
    THEN [obj |-> D, ret |-> Throw("OutOfBounds")]
    ELSE [obj |-> update_remaining([D EXCEPT !.cursor = @ + amount_of_bytes]), ret |-> Void]

\* mutant of reset_cursor: remaining is not recomputed
reset_cursor_stale(D) == [obj |-> [D EXCEPT !.cursor = 0], ret |-> Void]

reset_cursor(D) == [obj |-> update_remaining([D EXCEPT !.cursor = 0]), ret |-> Void]

\* this->reset_cursor(); this->skip(position);
set_cursor(D, position) == skip(reset_cursor(D).obj, position)

\* the printed text is not modelled
Deserializer_print_buffer(D) == [obj |-> D, ret |-> Void]

Deserializer_get_buffer_string(D) == [obj |-> D, ret |-> String(make_buffer_string(D.buffer))]

(***************************************************************************)
(* Specification Spec: one Serializer, its methods called in any order     *)
(* with any arguments.                                                     *)
(***************************************************************************)
\* the integer values handed to the push methods: one of each sizeof
PushValues ==
    { <<\hff>>,
      <<\h12, \h34>>,
      <<\h56, \h78, \h9a, \hbc>>,
      <<\hde, \hf0, \h12, \h34, \h56, \h78, \h9a, \hbc>> }

\* the vectors handed to push_buffer and returned by serialize()
Slices == SeqsUpTo({\h9a}, MaxSlice)

\* a Serializer call with outcome r took place
SerStep(r) ==
    /\ Len(r.obj.buffer) <= MaxLen
    /\ ser' = r.obj
    /\ ret' = r.ret
    /\ UNCHANGED <<des, returned, prog, pc>>

Init ==
    /\ ser \in {NewSerializer}
               \cup {NewSerializerSized(size, value) : size \in 0..MaxInitSize, value \in {\h00}}
    /\ des = NoDes
    /\ ret = NoRet
    /\ returned = <<>>
    /\ prog = <<>>
    /\ pc = 0

PushByte == \E v \in PushValues : SerStep(push_byte(ser, v))

Push16BigEndian == \E v \in PushValues : SerStep(push_16_big_endian(ser, v))

Push32BigEndian == \E v \in PushValues : SerStep(push_32_big_endian(ser, v))

Push64BigEndian == \E v \in PushValues : SerStep(push_64_big_endian(ser, v))

Push16LittleEndian == \E v \in PushValues : SerStep(push_16_little_endian(ser, v))

Push32LittleEndian == \E v \in PushValues : SerStep(push_32_little_endian(ser, v))

Push64LittleEndian == \E v \in PushValues : SerStep(push_64_little_endian(ser, v))

PushBigEndian == \E v \in PushValues : SerStep(push_big_endian(ser, v))

PushLittleEndian == \E v \in PushValues : SerStep(push_little_endian(ser, v))

PushBuffer == \E b \in Slices : SerStep(push_buffer(ser, b))

PushObject == \E b \in Slices : SerStep(push_object(ser, b))

DeferBufferSize32BigEndian == SerStep(defer_buffer_size_32_big_endian(ser))

GetBuffer == SerStep(Serializer_get_buffer(ser))

GetBufferSize == SerStep(Serializer_get_buffer_size(ser))

PrintBuffer == SerStep(Serializer_print_buffer(ser))

GetBufferString == SerStep(Serializer_get_buffer_string(ser))

Next ==
    \/ PushByte
    \/ Push16BigEndian
    \/ Push32BigEndian
    \/ Push64BigEndian
    \/ Push16LittleEndian
    \/ Push32LittleEndian
    \/ Push64LittleEndian
    \/ PushBigEndian
    \/ PushLittleEndian
    \/ PushBuffer
    \/ PushObject
    \/ DeferBufferSize32BigEndian
    \/ GetBuffer
    \/ GetBufferSize
    \/ PrintBuffer
    \/ GetBufferString

Spec == Init /\ [][Next]_vars

(***************************************************************************)
(* Specification SpecR: one Deserializer over some buffer, its methods     *)
(* called in any order with any arguments.                                 *)
(***************************************************************************)
\* the buffers handed to the constructor: the short ones, and two long enough
\* for the 8-byte reads (the second is the buffer the example program builds)
Inputs ==
    SeqsUpTo(SomeBytes, MaxInput)
    \cup { <<\h01, \h23, \h45, \h67, \h89, \hab, \hcd, \hef>>,
           <<\h12, \h34, \hbc, \h9a, \h78, \h56, \h00, \h00, \h00, \h12,
             \hde, \hf0, \h12, \h34, \h56, \h78, \h9a, \hbc>> }

\* the amounts and positions handed to get_buffer, skip and set_cursor:
\* up to two more than the buffer holds
Amounts == 0..(des.buffer_size + 2)

\* a Deserializer call with outcome r took place
DesStep(r) ==
    /\ des' = r.obj
    /\ ret' = r.ret
    /\ UNCHANGED <<ser, returned, prog, pc>>

InitR ==
    /\ ser = NoSer
    /\ des \in {NewDeserializer(b) : b \in Inputs}
    /\ ret = NoRet
    /\ returned = <<>>
    /\ prog = <<>>
    /\ pc = 0

GetByte == DesStep(get_byte(des))

Get16BigEndian == DesStep(get_16_big_endian(des))

Get32BigEndian == DesStep(get_32_big_endian(des))

Get64BigEndian == DesStep(get_64_big_endian(des))

Get16LittleEndian == DesStep(get_16_little_endian(des))

Get32LittleEndian == DesStep(get_32_little_endian(des))

Get64LittleEndian == DesStep(get_64_little_endian(des))

DesGetBuffer == \E size \in Amounts : DesStep(Deserializer_get_buffer(des, size))

Skip == \E n \in Amounts : DesStep(skip(des, n))

ResetCursor == DesStep(reset_cursor(des))

SetCursor == \E position \in Amounts : DesStep(set_cursor(des, position))

GetCursor == DesStep(get_cursor(des))

GetRemaining == DesStep(get_remaining(des))

DesGetBufferSize == DesStep(Deserializer_get_buffer_size(des))

DesPrintBuffer == DesStep(Deserializer_print_buffer(des))

DesGetBufferString == DesStep(Deserializer_get_buffer_string(des))

NextR ==
    \/ GetByte
    \/ Get16BigEndian
    \/ Get32BigEndian
    \/ Get64BigEndian
    \/ Get16LittleEndian
    \/ Get32LittleEndian
    \/ Get64LittleEndian
    \/ DesGetBuffer
    \/ Skip
    \/ ResetCursor
    \/ SetCursor
    \/ GetCursor
    \/ GetRemaining
    \/ DesGetBufferSize
    \/ DesPrintBuffer
    \/ DesGetBufferString

SpecR == InitR /\ [][NextR]_vars

(***************************************************************************)
(* Specification SpecProg: a client program, drawn from Programs, makes    *)
(* its calls one after the other on a fresh Serializer and on the          *)
(* Deserializer it constructs.                                             *)
(***************************************************************************)
\* a call: on "ser" or "des" (or "new" to construct the Deserializer), the method,
\* and its argument as a sequence: the numeral or vector handed over, <<n>> for a
\* size_t n, <<>> for none
Call(on, op, arg) == [on |-> on, op |-> op, arg |-> arg]

SerCall(S, c) ==
    CASE c.op = "push_byte" -> push_byte(S, c.arg)
      [] c.op = "push_16_big_endian" -> push_16_big_endian(S, c.arg)
      [] c.op = "push_32_big_endian" -> push_32_big_endian(S, c.arg)
      [] c.op = "push_64_big_endian" -> push_64_big_endian(S, c.arg)
      [] c.op = "push_16_little_endian" -> push_16_little_endian(S, c.arg)
      [] c.op = "push_32_little_endian" -> push_32_little_endian(S, c.arg)
      [] c.op = "push_64_little_endian" -> push_64_little_endian(S, c.arg)
      [] c.op = "push_big_endian" -> push_big_endian(S, c.arg)
      [] c.op = "push_little_endian" -> push_little_endian(S, c.arg)
      [] c.op = "push_buffer" -> push_buffer(S, c.arg)
      [] c.op = "push_object" -> push_object(S, c.arg)
      [] c.op = "defer_buffer_size_32_big_endian" -> defer_buffer_size_32_big_endian(S)
      [] c.op = "get_buffer" -> Serializer_get_buffer(S)
      [] c.op = "get_buffer_size" -> Serializer_get_buffer_size(S)
      [] c.op = "print_buffer" -> Serializer_print_buffer(S)
      [] c.op = "get_buffer_string" -> Serializer_get_buffer_string(S)

DesCall(D, c) ==
    CASE c.op = "get_byte" -> get_byte(D)
      [] c.op = "get_16_big_endian" -> get_16_big_endian(D)
      [] c.op = "get_32_big_endian" -> get_32_big_endian(D)
      [] c.op = "get_64_big_endian" -> get_64_big_endian(D)
      [] c.op = "get_16_little_endian" -> get_16_little_endian(D)
      [] c.op = "get_32_little_endian" -> get_32_little_endian(D)
      [] c.op = "get_64_little_endian" -> get_64_little_endian(D)
      [] c.op = "get_buffer" -> Deserializer_get_buffer(D, c.arg[1])
      [] c.op = "skip" -> skip(D, c.arg[1])
      [] c.op = "reset_cursor" -> reset_cursor(D)
      [] c.op = "set_cursor" -> set_cursor(D, c.arg[1])
      [] c.op = "get_cursor" -> get_cursor(D)
      [] c.op = "get_remaining" -> get_remaining(D)
      [] c.op = "get_buffer_size" -> Deserializer_get_buffer_size(D)
      [] c.op = "print_buffer" -> Deserializer_print_buffer(D)
      [] c.op = "get_buffer_string" -> Deserializer_get_buffer_string(D)

\* the caller keeps the vectors of its last two Serializer::get_buffer calls
Keep(bytes) ==
    IF Len(returned) < 2 THEN Append(returned, bytes) ELSE <<returned[2], bytes>>

\* the call the program makes next, and the one it made last
NextCall == prog[pc + 1]
LastCall == prog[pc]

RunSerializer ==
    /\ pc < Len(prog)
    /\ NextCall.on = "ser"
    /\ LET r == SerCall(ser, NextCall)
       IN  /\ ser' = r.obj
           /\ ret' = r.ret
           /\ returned' = IF NextCall.op = "get_buffer" THEN Keep(r.ret.bytes) ELSE returned
    /\ pc' = pc + 1
    /\ UNCHANGED <<des, prog>>

\* std::vector<unsigned char> buffer = serializer.get_buffer(); ... Deserializer deserializer(buffer);
Construct ==
    /\ pc < Len(prog)
    /\ NextCall.on = "new"
    /\ returned # <<>>
    /\ des' = NewDeserializer(returned[Len(returned)])
    /\ ret' = Void
    /\ pc' = pc + 1
    /\ UNCHANGED <<ser, returned, prog>>

RunDeserializer ==
    /\ pc < Len(prog)
    /\ NextCall.on = "des"
    /\ LET r == DesCall(des, NextCall)
       IN  /\ des' = r.obj
           /\ ret' = r.ret
    /\ pc' = pc + 1
    /\ UNCHANGED <<ser, returned, prog>>

\* calls without argument
GetBufferCall == Call("ser", "get_buffer", <<>>)
DeferCall == Call("ser", "defer_buffer_size_32_big_endian", <<>>)
ConstructCall == Call("new", "Deserializer", <<>>)

\* the width in bytes of every fixed-width push and read method
WidthOf(op) ==
    CASE op \in {"push_byte", "get_byte"} -> 1
      [] op \in {"push_16_big_endian", "push_16_little_endian",
                 "get_16_big_endian", "get_16_little_endian"} -> 2
      [] op \in {"push_32_big_endian", "push_32_little_endian",
                 "get_32_big_endian", "get_32_little_endian"} -> 4
      [] op \in {"push_64_big_endian", "push_64_little_endian",
                 "get_64_big_endian", "get_64_little_endian"} -> 8

\* the method that pushes / reads w bytes in order o
PushMethod(w, o) ==
    CASE w = 1 -> "push_byte"
      [] w = 2 -> IF o = "BIG" THEN "push_16_big_endian" ELSE "push_16_little_endian"
      [] w = 4 -> IF o = "BIG" THEN "push_32_big_endian" ELSE "push_32_little_endian"
      [] w = 8 -> IF o = "BIG" THEN "push_64_big_endian" ELSE "push_64_little_endian"

ReadMethod(w, o) ==
    CASE w = 1 -> "get_byte"
      [] w = 2 -> IF o = "BIG" THEN "get_16_big_endian" ELSE "get_16_little_endian"
      [] w = 4 -> IF o = "BIG" THEN "get_32_big_endian" ELSE "get_32_little_endian"
      [] w = 8 -> IF o = "BIG" THEN "get_64_big_endian" ELSE "get_64_little_endian"

Widths == {1, 2, 4, 8}
Orders == {"BIG", "LITTLE"}

\* the values of w bytes the round trips push: every numeral over two bytes that
\* are not each other's mirror, and the values of the example program
RoundTripValues(w) ==
    SeqsOfLen({\h01, \hfe}, w) \cup {v \in PushValues : Len(v) = w}

\* push one value, build the buffer, read the value back
RoundTripProgram(w, o, v) ==
    << Call("ser", PushMethod(w, o), v),
       GetBufferCall,
       ConstructCall,
       Call("des", ReadMethod(w, o), <<>>) >>

RoundTripPrograms ==
    UNION { {RoundTripProgram(wo[1], wo[2], v) : v \in RoundTripValues(wo[1])} :
            wo \in Widths \X Orders }

\* push one value big-endian, build the buffer, read it back little-endian
InversionProgram(w, v) ==
    << Call("ser", PushMethod(w, "BIG"), v),
       GetBufferCall,
       ConstructCall,
       Call("des", ReadMethod(w, "LITTLE"), <<>>) >>

InversionPrograms ==
    UNION { {InversionProgram(w, v) : v \in RoundTripValues(w)} : w \in {2, 4, 8} }

\* push one unsigned char with push_big_endian and again with push_little_endian,
\* build the buffer, read the two bytes back
ByteOrdersProgram(v) ==
    << Call("ser", "push_big_endian", v),
       Call("ser", "push_little_endian", v),
       GetBufferCall,
       ConstructCall,
       Call("des", "get_byte", <<>>),
       Call("des", "get_byte", <<>>) >>

ByteOrdersPrograms == {ByteOrdersProgram(v) : v \in RoundTripValues(1)}

\* bytes A, a deferred size, bytes B, build the buffer
DeferredProgram(A, B) ==
    << Call("ser", "push_buffer", A), DeferCall, Call("ser", "push_buffer", B), GetBufferCall >>

DeferredPrograms ==
    {DeferredProgram(A, B) : A \in SeqsUpTo({\h00, \h9a}, MaxSlice),
                             B \in SeqsUpTo({\h00, \h9a}, MaxSlice)}

\* the calls main() of the example makes on its Serializer and Deserializer
MainProgram ==
    << Call("ser", "push_16_big_endian", <<\h12, \h34>>),
       Call("ser", "push_32_little_endian", <<\h56, \h78, \h9a, \hbc>>),
       DeferCall,
       Call("ser", "push_64_big_endian", <<\hde, \hf0, \h12, \h34, \h56, \h78, \h9a, \hbc>>),
       GetBufferCall,
       Call("ser", "get_buffer_string", <<>>),
       ConstructCall,
       Call("des", "get_16_big_endian", <<>>),
       Call("des", "get_32_little_endian", <<>>),
       Call("des", "skip", <<4>>),
       Call("des", "get_64_big_endian", <<>>) >>

\* pushes, deferred sizes and get_buffer calls in every order
CoreCalls ==
    { Call("ser", "push_byte", <<\hff>>),
      Call("ser", "push_buffer", <<\h9a, \h00>>),
      DeferCall,
      GetBufferCall }

CorePrograms == SeqsUpTo(CoreCalls, MaxCalls)

Programs ==
    RoundTripPrograms \cup DeferredPrograms \cup {MainProgram} \cup CorePrograms
    \cup InversionPrograms \cup ByteOrdersPrograms

InitProg ==
    /\ prog \in Programs
    /\ pc = 0
    /\ ser = NewSerializer
    /\ des = NoDes
    /\ ret = NoRet
    /\ returned = <<>>

NextProg == RunSerializer \/ Construct \/ RunDeserializer

SpecProg == InitProg /\ [][NextProg]_vars

(***************************************************************************)
(* The encodings the properties are stated with.                           *)
(***************************************************************************)
\* the w bytes of the number n, n < 2^31: byte i = 0..w-1 is (n >> 8*(w-1-i)) & 0xFF
\* for "BIG" and (n >> 8*i) & 0xFF for "LITTLE"
EncodedByte(n, k) == IF k >= 4 THEN 0 ELSE (n \div (256 ^ k)) % 256

Encoded(n, w, order) ==
    [i \in 1..w |-> IF order = "BIG" THEN EncodedByte(n, w - i) ELSE EncodedByte(n, i - 1)]

\* the bytes of buffer a deferred size record covers
Field(buffer, deferred) ==
    SubSeq(buffer, deferred.index + 1, deferred.index + deferred.number_of_bytes)

\* every deferred size of S holds the length of buffer, in buffer
FieldsHoldLength(S, buffer) ==
    \A n \in 1..Len(S.deferred_sizes) :
        LET d == S.deferred_sizes[n]
        IN  Field(buffer, d) = Encoded(Len(buffer), d.number_of_bytes, d.endianness)

\* the bits of a byte, and of a value, most significant first
ByteBits(b) == [k \in 1..8 |-> (b \div (2 ^ (8 - k))) % 2]

RECURSIVE BitsOf(_)
BitsOf(value) == IF value = <<>> THEN <<>> ELSE ByteBits(Head(value)) \o BitsOf(Tail(value))

\* bits >> n: every bit moves n places down, zeros come in at the top
ShiftRightBits(bits, n) == [k \in 1..Len(bits) |-> IF k <= n THEN 0 ELSE bits[k - n]]

\* bits & 0xFF, as a number
LowByte(bits) ==
    LET bit(j) == bits[Len(bits) - j]
    IN  bit(0) + 2 * bit(1) + 4 * bit(2) + 8 * bit(3)
        + 16 * bit(4) + 32 * bit(5) + 64 * bit(6) + 128 * bit(7)

\* byte i = 0..w-1 of the wire encoding of v: (v >> 8*(w-1-i)) & 0xFF for "BIG",
\* (v >> 8*i) & 0xFF for "LITTLE"
WireByte(v, w, order, i) ==
    LowByte(ShiftRightBits(BitsOf(v), IF order = "BIG" THEN 8 * (w - 1 - i) ELSE 8 * i))

WireBytes(v, w, order) == [k \in 1..w |-> WireByte(v, w, order, k - 1)]

\* b << 8*k as a 64-bit number, for a byte b and 0 <= k < 8
ShiftLeftByte(b, k) == [j \in 1..8 |-> IF j = 8 - k THEN b ELSE 0]

\* x + y on 64-bit numbers: byte j and below, with the carry handed up
RECURSIVE AddFrom(_, _, _, _)
AddFrom(x, y, j, carry) ==
    IF j = 0 THEN <<>>
    ELSE LET t == x[j] + y[j] + carry
         IN  AddFrom(x, y, j - 1, t \div 256) \o <<t % 256>>

Add64(x, y) == AddFrom(x, y, 8, 0)

\* the sum over i..w-1 of b[i] << 8*(w-1-i) for "BIG", of b[i] << 8*i for "LITTLE",
\* b[0] being the first byte
RECURSIVE DecodedSum(_, _, _, _)
DecodedSum(b, w, order, i) ==
    IF i >= w THEN [j \in 1..8 |-> 0]
    ELSE Add64(ShiftLeftByte(b[i + 1], IF order = "BIG" THEN w - 1 - i ELSE i),
               DecodedSum(b, w, order, i + 1))

\* a value of a narrower type as a 64-bit number
ZeroExtend(value) == [j \in 1..(8 - Len(value)) |-> 0] \o value

\* the value whose bytes are those of value in reversed order
Reversed(value) == [k \in 1..Len(value) |-> value[Len(value) + 1 - k]]

(***************************************************************************)
(* Properties of client programs (SpecProg).                               *)
(***************************************************************************)
\* C1: a value pushed with width w and order o on a fresh Serializer, alone, is the
\* value the read of width w and order o returns from a Deserializer over get_buffer()
C1_RoundTrip ==
    (prog \in RoundTripPrograms /\ pc = 4) => ret = Value(prog[1].arg)

C1_Witness ==
    /\ prog = RoundTripProgram(8, "LITTLE", <<\hde, \hf0, \h12, \h34, \h56, \h78, \h9a, \hbc>>)
    /\ pc = 4
    /\ ret = Value(<<\hde, \hf0, \h12, \h34, \h56, \h78, \h9a, \hbc>>)
    /\ des.buffer = <<\hbc, \h9a, \h78, \h56, \h34, \h12, \hf0, \hde>>

\* C2: bytes A, a deferred 4-byte big-endian size, bytes B, get_buffer(): the vector
\* returned has length a + 4 + b, holds A, then the big-endian bytes of a + 4 + b, then B
C2_DeferredSize ==
    (prog \in DeferredPrograms /\ pc = 4) =>
        LET A == prog[1].arg
            B == prog[3].arg
            a == Len(A)
            b == Len(B)
        IN  /\ ret.kind = "bytes"
            /\ Len(ret.bytes) = a + 4 + b
            /\ SubSeq(ret.bytes, 1, a) = A
            /\ SubSeq(ret.bytes, a + 1, a + 4) = Encoded(a + 4 + b, 4, "BIG")
            /\ SubSeq(ret.bytes, a + 5, a + 4 + b) = B

C2_Witness ==
    /\ prog = DeferredProgram(<<\h00, \h9a>>, <<\h9a>>)
    /\ pc = 4
    /\ ret = Bytes(<<\h00, \h9a, 0, 0, 0, 7, \h9a>>)

\* C6: whenever get_buffer() returns, every deferred size registered so far holds the
\* length the buffer has at that call, and the vector returned is that buffer
C6_LengthAtFinalization ==
    (pc > 0 /\ LastCall = GetBufferCall) =>
        /\ ret = Bytes(ser.buffer)
        /\ FieldsHoldLength(ser, ser.buffer)

\* two deferred sizes, get_buffer(), more pushes, get_buffer(): both fields held the
\* first length in the first vector and hold the second length now
C6_Witness ==
    /\ pc > 0
    /\ LastCall = GetBufferCall
    /\ Len(returned) = 2
    /\ Len(returned[1]) < Len(returned[2])
    /\ Len(ser.deferred_sizes) >= 2
    /\ \A n \in 1..2 :
          LET d == ser.deferred_sizes[n]
          IN  /\ d.index + d.number_of_bytes <= Len(returned[1])
              /\ Field(returned[1], d) = Encoded(Len(returned[1]), 4, "BIG")
              /\ Field(returned[2], d) = Encoded(Len(returned[2]), 4, "BIG")
    /\ returned[2] = ser.buffer

\* C7: a get_buffer() call right after a get_buffer() call returns the same vector
\* and leaves the buffer and the deferred sizes as the first call left them
C7_IdempotentFinalize ==
    [][(pc >= 1 /\ pc' = pc + 1 /\ prog[pc] = GetBufferCall /\ prog[pc'] = GetBufferCall)
        => (ret' = ret /\ ser' = ser)]_vars

C7_Witness ==
    /\ pc >= 3
    /\ prog[pc] = GetBufferCall
    /\ prog[pc - 1] = GetBufferCall
    /\ ser.deferred_sizes # <<>>
    /\ Len(ser.buffer) > 4
    /\ returned = <<ser.buffer, ser.buffer>>

\* C10 as stated: the example program's buffer carries 0x14 = 20 as its length field
C10_MainBufferAsStated ==
    (prog = MainProgram /\ pc = 5) =>
        ret = Bytes(<<\h12, \h34, \hbc, \h9a, \h78, \h56, \h00, \h00, \h00, \h14,
                      \hde, \hf0, \h12, \h34, \h56, \h78, \h9a, \hbc>>)

\* C10 amended: the example program's buffer is 12 34 bc 9a 78 56 00 00 00 12
\* de f0 12 34 56 78 9a bc: 18 bytes, the length field being 0x12 = 18
C10_MainBuffer ==
    (prog = MainProgram /\ pc = 5) =>
        /\ ret = Bytes(<<\h12, \h34, \hbc, \h9a, \h78, \h56, \h00, \h00, \h00, \h12,
                         \hde, \hf0, \h12, \h34, \h56, \h78, \h9a, \hbc>>)
        /\ Len(ret.bytes) = 18

C10_Witness ==
    /\ prog = MainProgram
    /\ pc = 5
    /\ ret.kind = "bytes"
    /\ Len(ret.bytes) = 18
    /\ SubSeq(ret.bytes, 7, 10) = <<0, 0, 0, 18>>

\* C11: the Deserializer the example program constructs over the buffer it built
\* returns 0x1234 from get_16_big_endian, 0x56789abc from get_32_little_endian,
\* nothing from skip(4), 0xdef0123456789abc from get_64_big_endian; none of the four
\* calls throws, and remaining is 0 after the last
C11_MainReadBack ==
    (prog = MainProgram /\ pc >= 7) =>
        /\ des.buffer = returned[1]
        /\ ret.kind # "throw"
        /\ pc = 8 => ret = Value(<<\h12, \h34>>)
        /\ pc = 9 => ret = Value(<<\h56, \h78, \h9a, \hbc>>)
        /\ pc = 10 => ret = Void
        /\ pc = 11 => /\ ret = Value(<<\hde, \hf0, \h12, \h34, \h56, \h78, \h9a, \hbc>>)
                      /\ get_remaining(des).ret = Size(0)

C11_Witness ==
    /\ prog = MainProgram
    /\ pc = 11
    /\ ret = Value(<<\hde, \hf0, \h12, \h34, \h56, \h78, \h9a, \hbc>>)
    /\ des.cursor = 18
    /\ des.remaining = 0

\* C12: a fixed-width push of width w and order o of a value v of w bytes appends
\* exactly w bytes to the buffer, byte i = 0..w-1 being (v >> 8*(w-1-i)) & 0xFF for
\* big-endian and (v >> 8*i) & 0xFF for little-endian
C12_WireEncoding ==
    [][\A w \in Widths : \A o \in Orders :
          (/\ pc' = pc + 1
           /\ prog[pc'].on = "ser"
           /\ prog[pc'].op = PushMethod(w, o)
           /\ SizeOf(prog[pc'].arg) = w)
          => /\ ret' = Self
             /\ Len(ser'.buffer) = Len(ser.buffer) + w
             /\ ser'.buffer = ser.buffer \o WireBytes(prog[pc'].arg, w, o)]_vars

\* the example's little-endian push of 0x56789abc after the two bytes of 0x1234
C12_Witness ==
    /\ prog = MainProgram
    /\ pc = 2
    /\ ret = Self
    /\ ser.buffer = <<\h12, \h34, \hbc, \h9a, \h78, \h56>>

\* C14: a value of 2, 4 or 8 bytes pushed big-endian and read little-endian comes back
\* with its bytes in reversed order; an unsigned char pushed with push_big_endian and
\* with push_little_endian gives the same byte twice, and both reads return the value
C14_EndiannessInversion ==
    /\ (prog \in InversionPrograms /\ pc = 4) => ret = Value(Reversed(prog[1].arg))
    /\ (prog \in ByteOrdersPrograms /\ pc >= 3) =>
          /\ returned[1] = prog[1].arg \o prog[1].arg
          /\ pc >= 5 => ret = Value(prog[1].arg)

C14_Witness ==
    /\ prog = InversionProgram(8, <<\hde, \hf0, \h12, \h34, \h56, \h78, \h9a, \hbc>>)
    /\ pc = 4
    /\ des.buffer = <<\hde, \hf0, \h12, \h34, \h56, \h78, \h9a, \hbc>>
    /\ ret = Value(<<\hbc, \h9a, \h78, \h56, \h34, \h12, \hf0, \hde>>)

(***************************************************************************)
(* Properties of the Deserializer (SpecR).                                 *)
(***************************************************************************)
\* the outcomes of the seven fixed-width reads on D, by width
FixedReads(D) ==
    { <<1, get_byte(D)>>,
      <<2, get_16_big_endian(D)>>, <<2, get_16_little_endian(D)>>,
      <<4, get_32_big_endian(D)>>, <<4, get_32_little_endian(D)>>,
      <<8, get_64_big_endian(D)>>, <<8, get_64_little_endian(D)>> }

\* the outcomes of get_buffer(n) and skip(n) on D
SizedReads(D, n) == {Deserializer_get_buffer(D, n), skip(D, n)}

\* this step made a call whose outcome is r
DesMade(r) == des' = r.obj /\ ret' = r.ret

\* this step threw OutOfBounds and moved nothing
FailedUnmoved ==
    /\ ret' = Throw("OutOfBounds")
    /\ get_cursor(des').ret = get_cursor(des).ret
    /\ get_remaining(des').ret = get_remaining(des).ret

\* C3: a fixed-width read, get_buffer(n) or skip(n) asking for more than remaining
\* throws OutOfBounds and leaves cursor and remaining as they were; right after a
\* call that threw, such a call asking for no more than remaining does not throw
C3_BoundsSafety ==
    [][/\ \A t \in FixedReads(des) :
             (t[1] > des.remaining /\ DesMade(t[2])) => FailedUnmoved
       /\ \A n \in Amounts : \A r \in SizedReads(des, n) :
             (n > des.remaining /\ DesMade(r)) => FailedUnmoved
       /\ \A t \in FixedReads(des) :
             (ret.kind = "throw" /\ t[1] <= des.remaining /\ DesMade(t[2]))
                 => ret'.kind # "throw"
       /\ \A n \in Amounts : \A r \in SizedReads(des, n) :
             (ret.kind = "throw" /\ n <= des.remaining /\ DesMade(r))
                 => ret'.kind # "throw"]_vars

\* a call failed in the middle of the buffer, where smaller amounts can be had
C3_Witness ==
    /\ ret = Throw("OutOfBounds")
    /\ des.buffer_size = 4
    /\ des.cursor = 3
    /\ des.remaining = 1

\* C4: 0 <= cursor <= buffer size and remaining = buffer size - cursor, whatever
\* calls were made and however they ended
C4_ReaderInvariant ==
    LET cursor == get_cursor(des).ret.size
        remaining == get_remaining(des).ret.size
        length == Deserializer_get_buffer_size(des).ret.size
    IN  /\ 0 <= cursor
        /\ cursor <= length
        /\ remaining = length - cursor
        /\ length = Len(des.buffer)

\* a call failed with the cursor at the end of the 18-byte buffer
C4_Witness ==
    /\ ret = Throw("OutOfBounds")
    /\ des.buffer_size = 18
    /\ get_cursor(des).ret = Size(18)
    /\ get_remaining(des).ret = Size(0)

\* C5 as stated: set_cursor(position) with position > buffer size throws and leaves
\* cursor and remaining as they were
C5_FailedSeekUnmodified ==
    [][\A position \in Amounts :
          (position > des.buffer_size /\ DesMade(set_cursor(des, position)))
              => FailedUnmoved]_vars

\* the outcome of the read of width w and order o on D
FixedRead(D, w, o) == DesCall(D, Call("des", ReadMethod(w, o), <<>>))

\* the w bytes at the cursor of D
AtCursor(D, w) == SubSeq(D.buffer, D.cursor + 1, D.cursor + w)

\* C13: with w bytes b[0..w-1] at the cursor, the big-endian read of width w returns
\* the sum of b[i] << 8*(w-1-i) and the little-endian read the sum of b[i] << 8*i,
\* as 64-bit sums: no bit of an 8-byte value is lost
C13_WireDecoding ==
    [][\A w \in Widths : \A o \in Orders :
          (w <= des.remaining /\ DesMade(FixedRead(des, w, o)))
          => /\ ret'.kind = "value"
             /\ Len(ret'.value) = w
             /\ ZeroExtend(ret'.value) = DecodedSum(AtCursor(des, w), w, o, 0)]_vars

\* a little-endian 8-byte read whose last byte, 0xef, lands in the top 8 bits
C13_Witness ==
    /\ des.buffer = <<\h01, \h23, \h45, \h67, \h89, \hab, \hcd, \hef>>
    /\ des.cursor = 8
    /\ ret = Value(<<\hef, \hcd, \hab, \h89, \h67, \h45, \h23, \h01>>)

\* C16: whatever calls were made, also with nothing remaining and over an empty
\* buffer, get_buffer(0) does not throw, returns an empty vector and leaves cursor
\* and remaining as they are
C16_ZeroLengthRead ==
    LET r == Deserializer_get_buffer(des, 0)
    IN  /\ r.ret = Bytes(<<>>)
        /\ get_cursor(r.obj).ret = get_cursor(des).ret
        /\ get_remaining(r.obj).ret = get_remaining(des).ret
        /\ r.obj.buffer = des.buffer

\* get_buffer(0) returned with the cursor at the end of a buffer of four bytes
C16_Witness ==
    /\ ret = Bytes(<<>>)
    /\ des.buffer_size = 4
    /\ get_cursor(des).ret = Size(4)
    /\ get_remaining(des).ret = Size(0)

\* C17: get_buffer(n) with n <= remaining returns the n bytes at the cursor and moves
\* the cursor by n; a fixed-width read of width w <= remaining decodes the w bytes at
\* the cursor and moves the cursor by w; skip(n) with n <= remaining moves the cursor
\* by n and returns nothing; the buffer stays as it is
C17_ReadsConsumeWhatTheyReturn ==
    [][/\ \A n \in Amounts :
             (n <= des.remaining /\ DesMade(Deserializer_get_buffer(des, n)))
             => /\ ret' = Bytes(AtCursor(des, n))
                /\ Len(ret'.bytes) = n
                /\ get_cursor(des').ret.size = get_cursor(des).ret.size + n
                /\ des'.buffer = des.buffer
       /\ \A w \in Widths : \A o \in Orders :
             (w <= des.remaining /\ DesMade(FixedRead(des, w, o)))
             => /\ ret'.kind = "value"
                /\ ZeroExtend(ret'.value) = DecodedSum(AtCursor(des, w), w, o, 0)
                /\ get_cursor(des').ret.size = get_cursor(des).ret.size + w
                /\ des'.buffer = des.buffer
       /\ \A n \in Amounts :
             (n <= des.remaining /\ DesMade(skip(des, n)))
             => /\ ret' = Void
                /\ get_cursor(des').ret.size = get_cursor(des).ret.size + n
                /\ des'.buffer = des.buffer]_vars

\* get_buffer(2) returned bc 9a from the middle of the example's buffer
C17_Witness ==
    /\ des.buffer_size = 18
    /\ ret = Bytes(<<\hbc, \h9a>>)
    /\ get_cursor(des).ret = Size(4)
    /\ get_remaining(des).ret = Size(14)

(***************************************************************************)
(* Properties of the Serializer (Spec).                                    *)
(***************************************************************************)
\* the outcomes of the seven fixed-width pushes of value on S, by width
FixedPushes(S, value) ==
    { <<1, push_byte(S, value)>>,
      <<2, push_16_big_endian(S, value)>>, <<2, push_16_little_endian(S, value)>>,
      <<4, push_32_big_endian(S, value)>>, <<4, push_32_little_endian(S, value)>>,
      <<8, push_64_big_endian(S, value)>>, <<8, push_64_little_endian(S, value)>> }

\* this step made a call whose outcome is r
SerMade(r) == ser' = r.obj /\ ret' = r.ret

\* C9: a fixed-width push whose width is not the size of the value's type throws
\* SizeMismatch and leaves buffer and deferred sizes as they were; when it is, the
\* push appends exactly that many bytes
C9_SizeMismatch ==
    [][\A value \in PushValues : \A t \in FixedPushes(ser, value) :
          SerMade(t[2]) =>
              IF SizeOf(value) # t[1]
              THEN /\ ret' = Throw("SizeMismatch")
                   /\ ser'.buffer = ser.buffer
                   /\ ser'.deferred_sizes = ser.deferred_sizes
              ELSE /\ ret' = Self
                   /\ Len(ser'.buffer) = Len(ser.buffer) + t[1]
                   /\ SubSeq(ser'.buffer, 1, Len(ser.buffer)) = ser.buffer
                   /\ ser'.deferred_sizes = ser.deferred_sizes]_vars

\* a push threw on a Serializer that holds bytes and a deferred size
C9_Witness ==
    /\ ret = Throw("SizeMismatch")
    /\ Len(ser.buffer) = 6
    /\ Len(ser.deferred_sizes) = 1

\* C15: push_buffer(values) and push_object(object) never throw, whatever the
\* Serializer holds and however long the vector is, the empty one included: the buffer
\* afterwards is the buffer before followed by the vector, and the deferred sizes are
\* unchanged
C15_PushBufferVerbatim ==
    [][\A values \in Slices : \A r \in {push_buffer(ser, values), push_object(ser, values)} :
          /\ r.ret = Self
          /\ SerMade(r) =>
                /\ ret' = Self
                /\ Len(ser'.buffer) = Len(ser.buffer) + Len(values)
                /\ SubSeq(ser'.buffer, 1, Len(ser.buffer)) = ser.buffer
                /\ SubSeq(ser'.buffer, Len(ser.buffer) + 1, Len(ser'.buffer)) = values
                /\ ser'.deferred_sizes = ser.deferred_sizes]_vars

\* C18: whatever calls were made, get_buffer() included, every deferred size record
\* lies within the buffer: index + number_of_bytes <= buffer.size()
C18_PatchRange ==
    \A n \in 1..Len(ser.deferred_sizes) :
        LET d == ser.deferred_sizes[n]
        IN  /\ 0 <= d.index
            /\ d.index + d.number_of_bytes <= Serializer_get_buffer_size(ser).ret.size

\* get_buffer() returned a buffer whose last four bytes are the second of two
\* deferred sizes
C18_Witness ==
    /\ ret = Bytes(ser.buffer)
    /\ Len(ser.deferred_sizes) = 2
    /\ ser.deferred_sizes[2].index + 4 = Len(ser.buffer)
    /\ ser.deferred_sizes[1].index + 4 = ser.deferred_sizes[2].index
    /\ ser.buffer = <<0, 0, 0, 8, 0, 0, 0, 8>>

\* two bytes 9a 9a were pushed after a deferred size that was already filled in
C15_Witness ==
    /\ ret = Self
    /\ Len(ser.deferred_sizes) = 1
    /\ ser.buffer = <<\hff, 0, 0, 0, 5, \h9a, \h9a>>

(***************************************************************************)
(* Specification SpecDoc: client programs that also use the deferred-size  *)
(* methods the README lists (README.md, "Deferred Size") and serializer.h  *)
(* does not define: 16 and 64 bits, and the little-endian variants.  They  *)
(* are modelled after defer_buffer_size_32_big_endian, with the record's   *)
(* number_of_bytes and endianness set as the method's name says.           *)
(***************************************************************************)
defer_buffer_size(S, number_of_bytes, endianness) ==
    [obj |-> [buffer |-> S.buffer \o [k \in 1..number_of_bytes |-> 0],
              deferred_sizes |->
                  Append(S.deferred_sizes,
                         Deferred_Buffer_Size(Len(S.buffer), number_of_bytes, endianness))],
     ret |-> Self]

SerCallDoc(S, c) ==
    CASE c.op = "defer_buffer_size_16_big_endian" -> defer_buffer_size(S, 2, "BIG")
      [] c.op = "defer_buffer_size_64_big_endian" -> defer_buffer_size(S, 8, "BIG")
      [] c.op = "defer_buffer_size_16_little_endian" -> defer_buffer_size(S, 2, "LITTLE")
      [] c.op = "defer_buffer_size_32_little_endian" -> defer_buffer_size(S, 4, "LITTLE")
      [] c.op = "defer_buffer_size_64_little_endian" -> defer_buffer_size(S, 8, "LITTLE")
      [] OTHER -> SerCall(S, c)

RunSerializerDoc ==
    /\ pc < Len(prog)
    /\ NextCall.on = "ser"
    /\ LET r == SerCallDoc(ser, NextCall)
       IN  /\ ser' = r.obj
           /\ ret' = r.ret
           /\ returned' = IF NextCall.op = "get_buffer" THEN Keep(r.ret.bytes) ELSE returned
    /\ pc' = pc + 1
    /\ UNCHANGED <<des, prog>>

DocCalls ==
    { Call("ser", "push_byte", <<\hff>>),
      DeferCall,
      Call("ser", "defer_buffer_size_16_big_endian", <<>>),
      Call("ser", "defer_buffer_size_64_big_endian", <<>>),
      Call("ser", "defer_buffer_size_16_little_endian", <<>>),
      Call("ser", "defer_buffer_size_32_little_endian", <<>>),
      Call("ser", "defer_buffer_size_64_little_endian", <<>>),
      GetBufferCall }

DocPrograms == SeqsUpTo(DocCalls, MaxDocCalls)

InitDoc ==
    /\ prog \in DocPrograms
    /\ pc = 0
    /\ ser = NewSerializer
    /\ des = NoDes
    /\ ret = NoRet
    /\ returned = <<>>

NextDoc == RunSerializerDoc

SpecDoc == InitDoc /\ [][NextDoc]_vars

\* the positions of buffer no deferred size of S covers
Uncovered(S) ==
    {k \in 1..Len(S.buffer) :
        \A n \in 1..Len(S.deferred_sizes) :
            LET d == S.deferred_sizes[n]
            IN  ~(d.index < k /\ k <= d.index + d.number_of_bytes)}

\* C8: get_buffer() writes, for every deferred size of 2, 4 or 8 bytes, the buffer
\* length over exactly the bytes the record covers, in the record's own byte order,
\* and changes no other byte
C8_WidthAndOrderHonoured ==
    [][(pc' = pc + 1 /\ prog[pc'] = GetBufferCall) =>
          /\ Len(ser'.buffer) = Len(ser.buffer)
          /\ ser'.deferred_sizes = ser.deferred_sizes
          /\ FieldsHoldLength(ser', ser'.buffer)
          /\ \A k \in Uncovered(ser) : ser'.buffer[k] = ser.buffer[k]]_vars

(***************************************************************************)
(* Specification SpecHex: a client of utils.cpp formats a byte vector and  *)
(* parses the string it got, or parses a string of its own.                *)
(***************************************************************************)
\* the bytes of the vectors formatted: with and without a leading zero digit
HexBytes == {\h00, \h0a, \h9a, \hff}

HexBuffers == SeqsUpTo(HexBytes, MaxHexLen) \cup {<<\hde, \had, \hbe, \hef>>}

\* the characters of the strings parsed: 'D', 'e', '0', ' ', '\t', 'g'
TextChars == {68, 101, 48, 32, 9, 103}

\* "DE AD BE EF"
DeadBeefText == <<68, 69, 32, 65, 68, 32, 66, 69, 32, 69, 70>>

\* "DE AD BE EF 00 11 22 33", the string main() parses
MainText == DeadBeefText \o <<32, 48, 48, 32, 49, 49, 32, 50, 50, 32, 51, 51>>

Texts == SeqsUpTo(TextChars, MaxText) \cup {DeadBeefText, MainText}

\* hex_string_to_byte_vector(make_buffer_string(b)): the second call is handed the
\* string the first returned
HexRoundTripProgram(b) ==
    << Call("utils", "make_buffer_string", b),
       Call("returned", "hex_string_to_byte_vector", <<>>) >>

HexRoundTripPrograms == {HexRoundTripProgram(b) : b \in HexBuffers}

\* hex_string_to_byte_vector(text)
ParseProgram(text) == << Call("utils", "hex_string_to_byte_vector", text) >>

ParsePrograms == {ParseProgram(text) : text \in Texts}

HexPrograms == HexRoundTripPrograms \cup ParsePrograms

InitHex ==
    /\ prog \in HexPrograms
    /\ pc = 0
    /\ ser = NoSer
    /\ des = NoDes
    /\ ret = NoRet
    /\ returned = <<>>

MakeBufferString ==
    /\ pc < Len(prog)
    /\ NextCall.on = "utils"
    /\ NextCall.op = "make_buffer_string"
    /\ ret' = String(make_buffer_string(NextCall.arg))
    /\ pc' = pc + 1
    /\ UNCHANGED <<ser, des, returned, prog>>

HexStringToByteVector ==
    /\ pc < Len(prog)
    /\ NextCall.on = "utils"
    /\ NextCall.op = "hex_string_to_byte_vector"
    /\ ret' = hex_string_to_byte_vector(NextCall.arg)
    /\ pc' = pc + 1
    /\ UNCHANGED <<ser, des, returned, prog>>

HexStringToByteVectorOfReturned ==
    /\ pc < Len(prog)
    /\ NextCall.on = "returned"
    /\ ret.kind = "string"
    /\ ret' = hex_string_to_byte_vector(ret.string)
    /\ pc' = pc + 1
    /\ UNCHANGED <<ser, des, returned, prog>>

NextHex == MakeBufferString \/ HexStringToByteVector \/ HexStringToByteVectorOfReturned

SpecHex == InitHex /\ [][NextHex]_vars

\* the characters '0'..'9' and 'a'..'f', and the number such a digit stands for
LowerHexChars == (48..57) \cup (97..102)
LowerHexValue(c) == IF c <= 57 THEN c - 48 ELSE c - 87

\* the hex digits of either case, and the number a digit stands for
AnyHexChars == LowerHexChars \cup (65..70)
AnyHexValue(c) == IF c \in 65..70 THEN c - 55 ELSE LowerHexValue(c)

\* white space: space, tab, line feed, vertical tab, form feed, carriage return
WhiteSpace == {32} \cup (9..13)

\* the characters of text that are not white space, in order
NonWhiteSpace(text) == SelectSeq(text, LAMBDA c : c \notin WhiteSpace)

\* C19: make_buffer_string(b) is two lower-case hex digits per byte of b, in order,
\* with nothing between them, and hex_string_to_byte_vector of that string is b,
\* for every vector b, the empty one included
C19_HexRoundTrip ==
    (prog \in HexRoundTripPrograms /\ pc >= 1) =>
        LET b == prog[1].arg
        IN  /\ pc = 1 =>
                /\ ret.kind = "string"
                /\ Len(ret.string) = 2 * Len(b)
                /\ \A k \in 1..Len(b) :
                      /\ ret.string[2 * k - 1] \in LowerHexChars
                      /\ ret.string[2 * k] \in LowerHexChars
                      /\ 16 * LowerHexValue(ret.string[2 * k - 1])
                            + LowerHexValue(ret.string[2 * k]) = b[k]
            /\ pc = 2 => ret = Bytes(b)

\* 00 0a ff went through "000aff" and came back
C19_Witness ==
    /\ prog = HexRoundTripProgram(<<\h00, \h0a, \hff>>)
    /\ pc = 2
    /\ ret = Bytes(<<\h00, \h0a, \hff>>)

KeepsBytes == SubSeq(ser'.buffer, 1, Len(ser.buffer)) = ser.buffer

C22_AbsoluteRepositioning ==
    [][/\ reset_cursor(des).ret = Void
       /\ DesMade(reset_cursor(des)) =>
             /\ get_cursor(des').ret = Size(0)
             /\ get_remaining(des').ret = Deserializer_get_buffer_size(des).ret
       /\ \A position \in Amounts :
             position <= Deserializer_get_buffer_size(des).ret.size =>
                /\ set_cursor(des, position).ret = Void
                /\ DesMade(set_cursor(des, position)) =>
                      /\ get_cursor(des').ret = Size(position)
                      /\ get_remaining(des').ret
                            = Size(Deserializer_get_buffer_size(des).ret.size - position)]_vars

\* the cursor is at 3 of 4 after a call that returned nothing
C22_Witness ==
    /\ ret = Void
    /\ des.buffer_size = 4
    /\ get_cursor(des).ret = Size(3)
    /\ get_remaining(des).ret = Size(1)

\* the cursor after this step is not before the cursor before it
CursorNotBack == get_cursor(des').ret.size >= get_cursor(des).ret.size

\* C23: a fixed-width read, get_buffer(n) or skip(n), whether it returns or throws,
\* never moves the cursor back; a step that moves the cursor back is a reset_cursor()
\* or a set_cursor(position) call
C23_CursorMonotonic ==
    [][/\ \A t \in FixedReads(des) : DesMade(t[2]) => CursorNotBack
       /\ \A n \in Amounts : \A r \in SizedReads(des, n) : DesMade(r) => CursorNotBack
       /\ ~CursorNotBack =>
             \/ DesMade(reset_cursor(des))
             \/ \E position \in Amounts : DesMade(set_cursor(des, position))]_vars

\* a call threw with the cursor in the middle of a buffer of four bytes
C23_Witness ==
    /\ ret = Throw("OutOfBounds")
    /\ des.buffer_size = 4
    /\ get_cursor(des).ret = Size(2)
    /\ get_remaining(des).ret = Size(2)

\* the outcomes of the three accessors on D
Accessors(D) == {get_cursor(D), get_remaining(D), Deserializer_get_buffer_size(D)}

\* C24: no call on the Deserializer, whether it returns or throws, changes the bytes
\* of its buffer or its buffer size; get_cursor(), get_remaining() and
\* get_buffer_size() change nothing of the Deserializer
C24_ReaderInputImmutable ==
    [][/\ des'.buffer = des.buffer
       /\ Deserializer_get_buffer_size(des').ret = Deserializer_get_buffer_size(des).ret
       /\ Deserializer_get_buffer_size(des').ret = Size(Len(des'.buffer))
       /\ \A r \in Accessors(des) :
             /\ r.obj = des
             /\ DesMade(r) => des' = des]_vars

\* get_remaining() returned 14 with the cursor at 4 of the example's 18 bytes
C24_Witness ==
    /\ ret = Size(14)
    /\ des.buffer_size = 18
    /\ des.cursor = 4
    /\ des.remaining = 14
    /\ des.buffer[10] = \h12

(***************************************************************************)
(* Further properties of the Serializer (Spec), second part.               *)
(***************************************************************************)
\* text is two lower-case hex digits per byte of bytes, in order
IsHexOf(text, bytes) ==
    /\ Len(text) = 2 * Len(bytes)
    /\ \A k \in 1..Len(bytes) :
          /\ text[2 * k - 1] \in LowerHexChars
          /\ text[2 * k] \in LowerHexChars
          /\ 16 * LowerHexValue(text[2 * k - 1]) + LowerHexValue(text[2 * k]) = bytes[k]

\* C25: whatever the Serializer holds, get_buffer_string() returns the hex text of the
\* vector get_buffer() would return there, the deferred sizes holding the buffer
\* length and not their zero placeholders, and leaves the Serializer as get_buffer()
\* would leave it
C25_StringOfFinalizedBuffer ==
    LET f == Serializer_get_buffer(ser)
        h == Serializer_get_buffer_string(ser)
    IN  /\ h.ret.kind = "string"
        /\ IsHexOf(h.ret.string, f.ret.bytes)
        /\ FieldsHoldLength(ser, f.ret.bytes)
        /\ h.obj = f.obj

\* get_buffer_string() returned "ff00000005": a byte and a deferred size holding 5
C25_Witness ==
    /\ ret = String(<<102, 102, 48, 48, 48, 48, 48, 48, 48, 53>>)
    /\ ser.buffer = <<\hff, 0, 0, 0, 5>>
    /\ Len(ser.deferred_sizes) = 1

\* the outcomes of the three calls that fill in the deferred sizes
Finalizations(S) ==
    {Serializer_get_buffer(S), Serializer_print_buffer(S), Serializer_get_buffer_string(S)}

\* C26: no call makes the buffer shorter; get_buffer(), print_buffer() and
\* get_buffer_string() leave its length; a byte that no deferred size record covers
\* keeps its value in every call; a call that changes a byte already in the buffer is
\* one that fills in the deferred sizes, and changes nothing else
C26_AppendOnly ==
    [][/\ Len(ser'.buffer) >= Len(ser.buffer)
       /\ \A r \in Finalizations(ser) : SerMade(r) => Len(ser'.buffer) = Len(ser.buffer)
       /\ \A k \in Uncovered(ser) : ser'.buffer[k] = ser.buffer[k]
       /\ ~KeepsBytes =>
             /\ \E r \in Finalizations(ser) : SerMade(r)
             /\ ser'.deferred_sizes = ser.deferred_sizes]_vars

\* get_buffer() wrote 6 between two bytes ff and left them
C26_Witness ==
    /\ ret = Bytes(ser.buffer)
    /\ ser.buffer = <<\hff, 0, 0, 0, 6, \hff>>
    /\ Len(ser.deferred_sizes) = 1

\* C27: whatever calls were made, the deferred size records have strictly increasing
\* indexes in the order they were made and the ranges [index, index + number_of_bytes)
\* of two records share no byte; filling the records in the opposite order gives the
\* same buffer
C27_PatchRangesDisjoint ==
    /\ \A n \in 1..Len(ser.deferred_sizes) : \A m \in (n + 1)..Len(ser.deferred_sizes) :
          LET first == ser.deferred_sizes[n]
              second == ser.deferred_sizes[m]
          IN  /\ first.index < second.index
              /\ first.index + first.number_of_bytes <= second.index
    /\ insert_sizes_from(ser.buffer, Reversed(ser.deferred_sizes), 1, Len(ser.buffer))
          = Serializer_get_buffer(ser).ret.bytes

\* two deferred sizes one after the other, not filled in yet
C27_Witness ==
    /\ ret = Self
    /\ ser.buffer = <<0, 0, 0, 0, 0, 0, 0, 0>>
    /\ Len(ser.deferred_sizes) = 2
    /\ ser.deferred_sizes[1].index = 0
    /\ ser.deferred_sizes[2].index = 4

(***************************************************************************)
(* Specification SpecBig: client programs on a Serializer constructed with *)
(* just under 2^16 bytes, Serializer(size, 0x00), so that the buffer       *)
(* length at get_buffer() lies on either side of what two bytes hold.  The *)
(* two-byte deferred size is the README's defer_buffer_size_16_big_endian  *)
(* (see SpecDoc); the four-byte one is the source's.                       *)
(***************************************************************************)
\* the sizes handed to the constructor: 2^16 - 4 .. 2^16 - 1
BigSizes == (256 * 256 - 4)..(256 * 256 - 1)

BigCalls ==
    { Call("ser", "push_byte", <<\hff>>),
      Call("ser", "defer_buffer_size_16_big_endian", <<>>),
      DeferCall,
      GetBufferCall }

BigPrograms == SeqsUpTo(BigCalls, MaxBigCalls)

InitBig ==
    /\ prog \in BigPrograms
    /\ pc = 0
    /\ ser \in {NewSerializerSized(size, \h00) : size \in BigSizes}
    /\ des = NoDes
    /\ ret = NoRet
    /\ returned = <<>>

NextBig == RunSerializerDoc

SpecBig == InitBig /\ [][NextBig]_vars

\* the number a field holds, most significant byte first (a number below 2^31)
RECURSIVE FieldNumber(_)
FieldNumber(field) ==
    IF field = <<>> THEN 0
    ELSE 256 * FieldNumber(SubSeq(field, 1, Len(field) - 1)) + field[Len(field)]

\* length < 2^(8*width), for the lengths below 2^31 the model reaches
Representable(length, width) == width >= 4 \/ length < 256 ^ width

\* C28: get_buffer() does not throw when the buffer length does not fit a deferred
\* size: a field of width bytes then holds the length modulo 2^(8*width); a field the
\* length fits holds exactly the length
C28_LengthFieldTruncation ==
    (pc > 0 /\ LastCall = GetBufferCall) =>
        /\ ret = Bytes(ser.buffer)
        /\ \A n \in 1..Len(ser.deferred_sizes) :
              LET d == ser.deferred_sizes[n]
                  length == Len(ser.buffer)
                  held == FieldNumber(Field(ser.buffer, d))
              IN  IF Representable(length, d.number_of_bytes)
                  THEN held = length
                  ELSE held = length % (256 ^ d.number_of_bytes)

\* 2^16 - 1 bytes and a two-byte deferred size: the length is 2^16 + 1, the field holds 1
C28_Witness ==
    /\ pc = 2
    /\ LastCall = GetBufferCall
    /\ Len(ser.buffer) = 256 * 256 + 1
    /\ ser.deferred_sizes = <<[index |-> 256 * 256 - 1, number_of_bytes |-> 2,
                               endianness |-> "BIG"]>>
    /\ Field(ser.buffer, ser.deferred_sizes[1]) = <<0, 1>>
    /\ ret.kind = "bytes"

====
